---- MODULE Spec2Model ----
(***************************************************************************)
(* Model of the document-grounded chat (RAG) pipeline of the HR backend:   *)
(* backend/ai_chat_routes.py (upload, delete and chat handlers, the        *)
(* per-tenant Qdrant collection, the lazily loaded embedding model) and    *)
(* the index set-up of backend/server.py.                                   *)
(*                                                                         *)
(* Scheduling.  Every handler is an `async def` served by one asyncio      *)
(* event loop per server process.  A handler gives up the loop only at an  *)
(* `await` (the MongoDB calls); the Qdrant, embedding and LLM calls are    *)
(* blocking calls made while the handler owns the loop.  Several server    *)
(* processes (Workers) share the same MongoDB and Qdrant services, so the  *)
(* calls of handlers of different processes interleave freely.             *)
(***************************************************************************)
EXTENDS Integers, Sequences, FiniteSets, TLC

VARIABLES
    req,              \* per request slot: the handler's local state
    docs,             \* db.knowledge_documents
    colls,            \* Qdrant: collection name -> collection (or NoColl)
    embedding_model,  \* per process: the module global _embedding_model
    built,            \* per process: how many SentenceTransformer objects were constructed
    chat_messages,    \* db.chat_messages, in insertion order
    clock,            \* the time source of the created_at stamps
    recreated,        \* history: collection names destroyed by ensure_collection
    chunker           \* a direct call of chunk_text: its arguments and what it gave

vars == <<req, docs, colls, embedding_model, built, chat_messages, clock, recreated,
          chunker>>

-----------------------------------------------------------------------------
(* Bounds *)

MaxRequests == 2

Reqs == 1..MaxRequests

Workers == {"w1", "w2"}

(* Program constants *)

EMBEDDING_DIM == 384

(* the vector size of a collection built by an earlier embedding model *)
LegacyDim == 4 * EMBEDDING_DIM

CHUNK_SIZE == 500

OVERLAP == 50

MIN_TEXT_LEN == 10

SEARCH_LIMIT == 5

SCORE_THRESHOLD == 3000

HISTORY_LIMIT == 10

COLLECTION_NAME_PREFIX ==
    <<"h", "r", "_", "k", "n", "o", "w", "l", "e", "d", "g", "e", "_">>

None == "None"

(* the answer of Qdrant for a collection that does not exist *)
NoColl == [size |-> 0, distance |-> "none", points |-> {}]

-----------------------------------------------------------------------------
(* Strings are sequences of one-character strings.                          *)

IsSpace(ch) == ch \in {" ", "\n", "\t"}

Lower(ch) ==
    CASE ch = "P" -> "p" [] ch = "D" -> "d" [] ch = "F" -> "f"
      [] ch = "O" -> "o" [] ch = "C" -> "c" [] ch = "X" -> "x"
      [] ch = "A" -> "a" [] OTHER -> ch

lower(s) == [i \in 1..Len(s) |-> Lower(s[i])]

endswith(s, suffix) ==
    /\ Len(s) >= Len(suffix)
    /\ SubSeq(s, Len(s) - Len(suffix) + 1, Len(s)) = suffix

RECURSIVE lstrip(_)
lstrip(s) == IF s # <<>> /\ IsSpace(Head(s)) THEN lstrip(Tail(s)) ELSE s

RECURSIVE rstrip(_)
rstrip(s) ==
    IF s # <<>> /\ IsSpace(s[Len(s)]) THEN rstrip(SubSeq(s, 1, Len(s) - 1)) ELSE s

strip(s) == rstrip(lstrip(s))

(* str.replace(old, new) for one-character old and new *)
replace(s, old, new) == [i \in 1..Len(s) |-> IF s[i] = old THEN new ELSE s[i]]

RECURSIVE Concat(_)
Concat(ss) == IF ss = <<>> THEN <<>> ELSE Head(ss) \o Concat(Tail(ss))

(* str.split(): the maximal runs of non-whitespace characters, in order.   *)
(* SplitFrom scans a short text character by character; a long text is cut *)
(* at the whitespace nearest to its middle and the halves are split.       *)
RECURSIVE SplitFrom(_, _, _)
SplitFrom(s, cur, acc) ==
    IF s = <<>>
    THEN IF cur = <<>> THEN acc ELSE Append(acc, cur)
    ELSE IF IsSpace(Head(s))
         THEN SplitFrom(Tail(s), <<>>, IF cur = <<>> THEN acc ELSE Append(acc, cur))
         ELSE SplitFrom(Tail(s), Append(cur, Head(s)), acc)

RECURSIVE split(_)
split(s) ==
    IF Len(s) <= 32 THEN SplitFrom(s, <<>>, <<>>)
    ELSE LET mid    == Len(s) \div 2
             spaces == {i \in 1..Len(s) : IsSpace(s[i])}
             dist(i) == IF i < mid THEN mid - i ELSE i - mid
         IN  IF spaces = {} THEN <<s>>
             ELSE LET m == CHOOSE i \in spaces : \A j \in spaces : dist(i) <= dist(j)
                  IN  split(SubSeq(s, 1, m - 1)) \o split(SubSeq(s, m + 1, Len(s)))

(* ' '.join(words) *)
RECURSIVE join(_)
join(words) ==
    IF words = <<>> THEN <<>>
    ELSE IF Len(words) = 1 THEN Head(words)
    ELSE LET mid == Len(words) \div 2
         IN  join(SubSeq(words, 1, mid)) \o <<" ">>
                \o join(SubSeq(words, mid + 1, Len(words)))

Min(a, b) == IF a < b THEN a ELSE b

-----------------------------------------------------------------------------
(* chunk_text: overlapping windows of words.  range(0, n, step) raises     *)
(* ValueError for step = 0 and is empty for step < 0.                      *)

RECURSIVE Windows(_, _, _, _)
Windows(words, i, chunk_size, step) ==
    IF i >= Len(words) THEN <<>>
    ELSE LET chunk == join(SubSeq(words, i + 1, Min(i + chunk_size, Len(words))))
             rest  == Windows(words, i + step, chunk_size, step)
         IN  IF chunk # <<>> THEN <<chunk>> \o rest ELSE rest

(* variant: only the windows that are full are kept *)
chunk_textFullWindows(text, chunk_size, overlap) ==
    IF text = <<>> \/ chunk_size - overlap <= 0
    THEN [raised |-> FALSE, chunks |-> <<>>]
    ELSE LET all == Windows(split(text), 0, chunk_size, chunk_size - overlap)
             full(c) == Len(split(c)) = chunk_size
         IN  [raised |-> FALSE, chunks |-> SelectSeq(all, full)]

chunk_text(text, chunk_size, overlap) ==
    IF text = <<>> THEN [raised |-> FALSE, chunks |-> <<>>]
    ELSE IF chunk_size - overlap = 0 THEN [raised |-> TRUE, chunks |-> <<>>]
    ELSE IF chunk_size - overlap < 0 THEN [raised |-> FALSE, chunks |-> <<>>]
    ELSE [raised |-> FALSE,
          chunks |-> Windows(split(text), 0, chunk_size, chunk_size - overlap)]

-----------------------------------------------------------------------------
(* A direct call of chunk_text, as a caller other than the upload handler  *)
(* makes it: any text, any window, any overlap.                             *)

MaxChunkSize == 4

MaxOverlap == 5

MaxWords == 9

Letters == <<"a", "b", "c", "d", "e", "f", "g", "h", "i", "j">>

Words(n) == [i \in 1..n |-> <<Letters[i]>>]

(* texts of 0..MaxWords single-spaced words, and texts whose whitespace is *)
(* irregular: only blanks, leading and trailing blanks, runs, line breaks  *)
ChunkTexts ==
    {join(Words(n)) : n \in 0..MaxWords}
    \cup { <<" ">>,
           <<" ", "\t", "\n">>,
           <<" ", "a", "b", " ", " ", "c", "\n", "d", " ">>,
           <<"a", "\n", "\n", "b", "\t", "c", "d", " ", "e", " ", " ", "f">> }

NoOut == [raised |-> FALSE, chunks |-> <<>>]

NoCall == [pc |-> "none", text |-> <<>>, chunk_size |-> 0, overlap |-> 0,
           out |-> NoOut, again |-> NoOut]

ChunkCalls ==
    { [NoCall EXCEPT !.pc = "idle", !.text = t, !.chunk_size = w, !.overlap = o]
      : t \in ChunkTexts, w \in 1..MaxChunkSize, o \in 0..MaxOverlap }

(* chunks = chunk_text(text, chunk_size, overlap) *)
ChunkCall ==
    /\ chunker.pc = "idle"
    /\ chunker' = [chunker EXCEPT
                      !.pc = "called",
                      !.out = chunk_text(chunker.text, chunker.chunk_size,
                                         chunker.overlap)]
    /\ UNCHANGED <<req, docs, colls, embedding_model, built, chat_messages, clock,
                   recreated>>

(* the same call once more *)
ChunkRecall ==
    /\ chunker.pc = "called"
    /\ chunker' = [chunker EXCEPT
                      !.pc = "recalled",
                      !.again = chunk_text(chunker.text, chunker.chunk_size,
                                           chunker.overlap)]
    /\ UNCHANGED <<req, docs, colls, embedding_model, built, chat_messages, clock,
                   recreated>>

-----------------------------------------------------------------------------
(* Tenants, uploaded byte streams and files                                 *)

T1 == <<"a", "-", "1">>

T2 == <<"b", "-", "2">>

Tenants == {T1, T2}

(* str(uuid.uuid4()): groups of hexadecimal digits separated by hyphens,  *)
(* here two groups of one digit                                             *)
HexDigits == {"a", "b", "1", "2"}

CompanyIds == {<<x, "-", y>> : x, y \in HexDigits}

(* variant: every tenant gets the same collection *)
get_collection_nameShared(company_id) == COLLECTION_NAME_PREFIX

(* get_collection_name: prefix + company_id.replace('-', '_') *)
get_collection_name(company_id) ==
    COLLECTION_NAME_PREFIX \o replace(company_id, "-", "_")

CollNames == {get_collection_name(t) : t \in Tenants}

(* A byte stream: what a PDF parser finds in it (page texts, None for a     *)
(* page without text), what a DOCX parser finds (paragraphs), and what a   *)
(* lossy UTF-8 decode of the raw bytes gives ("#" is a non-printable       *)
(* character).  fmt is the format the bytes really are.                     *)
Contents == {"c0", "c1", "c2", "c3", "c4", "c5", "c6"}

(* n words of one letter each, single-spaced *)
LongLine(n) ==
    LET ch == [i \in 1..(2 * n - 1) |->
                 IF i % 2 = 0 THEN " " ELSE IF (i \div 2) % 3 = 0 THEN "p" ELSE "q"]
    IN  SubSeq(ch, 1, 2 * n - 1)

Content(c) ==
    CASE c = "c0" ->
           [fmt |-> "pdf",
            pages |-> << <<"l","e","a","v","e"," ","1","4"," ","d","a","y","s">> >>,
            paragraphs |-> <<>>,
            bytes |-> <<"%","P","D","F","#","#","l","e","a","v","e","#">>]
      [] c = "c1" ->
           [fmt |-> "pdf",
            pages |-> << <<" ","s","i","c","k"," "," ","l","e","a","v","e">>,
                         None,
                         <<"\n","2"," ","d","a","y","s"," ","\n">> >>,
            paragraphs |-> <<>>,
            bytes |-> <<"%","P","D","F","#","s","i","c","k","#","#","2">>]
      [] c = "c2" ->
           [fmt |-> "docx",
            pages |-> <<>>,
            paragraphs |-> << <<" ","h","i">>, <<>> >>,
            bytes |-> <<"P","K","#","#","h","i","#">>]
      [] c = "c4" ->
           [fmt |-> "docx",
            pages |-> <<>>,
            paragraphs |-> << <<" ">>, <<"\t">> >>,
            bytes |-> <<"P","K","#","#"," ","#">>]
      [] c = "c5" ->
           [fmt |-> "pdf",
            pages |-> << LongLine(CHUNK_SIZE + OVERLAP + 1) >>,
            paragraphs |-> <<>>,
            bytes |-> <<"%","P","D","F","#","p","#">>]
      [] c = "c6" ->
           [fmt |-> "docx",
            pages |-> <<>>,
            paragraphs |-> << LongLine(CHUNK_SIZE), LongLine(CHUNK_SIZE) >>,
            bytes |-> <<"P","K","#","p","#">>]
      [] OTHER ->
           [fmt |-> "junk",
            pages |-> <<>>,
            paragraphs |-> <<>>,
            bytes |-> <<"#"," ","m","e","m","o",":"," ","#","p","a","y","d","a","y","\t">>]

(* hashlib.md5(file_content).hexdigest(): a digest of the bytes alone *)
md5(c) ==
    CASE c = "c0" -> "9e10" [] c = "c1" -> "41fa" [] c = "c2" -> "c07b"
      [] c = "c4" -> "0b2d" [] c = "c5" -> "5f5f" [] c = "c6" -> "6a6a"
      [] OTHER -> "d3e5"

FileNames ==
    [pdfU |-> <<"a", ".", "P", "D", "F">>,
     docx |-> <<"b", ".", "d", "o", "c", "x">>,
     txt  |-> <<"c", ".", "t", "x", "t">>,
     pdf  |-> <<"d", ".", "p", "d", "f">>,
     doc  |-> <<"n", ".", "d", "o", "c">>,
     old  |-> <<"p", ".", "p", "d", "f">>,
     blank |-> <<"e", ".", "D", "o", "c", "x">>,
     nodot |-> <<"m", "y", "p", "d", "f">>]

Files ==
    { [filename |-> FileNames.pdfU, content |-> "c1"],
      [filename |-> FileNames.docx, content |-> "c2"],
      [filename |-> FileNames.txt,  content |-> "c1"],
      [filename |-> FileNames.pdf,  content |-> "c3"],
      [filename |-> FileNames.doc,  content |-> "c3"],
      [filename |-> FileNames.old,  content |-> "c0"],
      [filename |-> FileNames.blank, content |-> "c4"],
      [filename |-> FileNames.nodot, content |-> "c1"] }

(* documents of more words than one window holds, and a short one *)
IngestFiles ==
    { [filename |-> FileNames.pdf,  content |-> "c5"],
      [filename |-> FileNames.docx, content |-> "c6"],
      [filename |-> FileNames.pdfU, content |-> "c1"] }

NoFile == [filename |-> <<>>, content |-> "c0"]

-----------------------------------------------------------------------------
(* Text extraction.  Each returns [ok, text]; ok = FALSE is the            *)
(* HTTPException(400) raised when the parser rejects the bytes.            *)

PageText(p) == IF p = None THEN <<>> ELSE p

extract_text_from_pdf(c) ==
    IF Content(c).fmt = "pdf"
    THEN [ok |-> TRUE,
          text |-> strip(Concat([i \in 1..Len(Content(c).pages) |->
                                    PageText(Content(c).pages[i])]))]
    ELSE [ok |-> FALSE, text |-> <<>>]

extract_text_from_docx(c) ==
    IF Content(c).fmt = "docx"
    THEN [ok |-> TRUE,
          text |-> strip(Concat([i \in 1..Len(Content(c).paragraphs) |->
                                    Content(c).paragraphs[i] \o <<"\n">>]))]
    ELSE [ok |-> FALSE, text |-> <<>>]

IsPrintable(ch) == ch # "#" /\ ch \notin {"\n", "\t"}

KeptByDoc(ch) == IsPrintable(ch) \/ ch \in {"\n", "\t"}

extract_text_from_doc(c) ==
    [ok |-> TRUE, text |-> strip(SelectSeq(Content(c).bytes, KeptByDoc))]

(* variant: the suffixes are tested without their dot *)
SupportedNameNoDot(filename) ==
    \/ endswith(lower(filename), <<"p", "d", "f">>)
    \/ endswith(lower(filename), <<"d", "o", "c">>)
    \/ endswith(lower(filename), <<"d", "o", "c", "x">>)

(* the filename test of the upload handler *)
SupportedName(filename) ==
    \/ endswith(lower(filename), <<".", "p", "d", "f">>)
    \/ endswith(lower(filename), <<".", "d", "o", "c">>)
    \/ endswith(lower(filename), <<".", "d", "o", "c", "x">>)

(* the extractor the upload handler picks from the lower-cased filename *)
ExtractFor(file) ==
    IF endswith(lower(file.filename), <<".", "p", "d", "f">>)
    THEN extract_text_from_pdf(file.content)
    ELSE IF endswith(lower(file.filename), <<".", "d", "o", "c", "x">>)
    THEN extract_text_from_docx(file.content)
    ELSE extract_text_from_doc(file.content)

(* variant: only the empty text is refused *)
TooShortOnlyEmpty(text) == text = <<>>

(* `not text or len(text) < 10` *)
TooShort(text) == text = <<>> \/ Len(text) < MIN_TEXT_LEN

(* chunks = chunk_text(text) for each file that can be uploaded: the      *)
(* chunks depend on the file alone and are computed once per file          *)
Chunks ==
    [file \in Files \cup IngestFiles |->
        chunk_text(ExtractFor(file).text, CHUNK_SIZE, OVERLAP).chunks]

ChunksOf(file) == Chunks[file]

-----------------------------------------------------------------------------
(* Documents, points and collections                                        *)

DocId(r) == <<"u", r>>

LegacyDocId == <<"d", 0>>

OtherDocId == <<"e", 0>>

UnknownDocId == <<"x", 0>>

DocIds == {DocId(r) : r \in Reqs} \cup {LegacyDocId, OtherDocId, UnknownDocId}

(* KnowledgeDocument(...) as built by the upload handler *)
KnowledgeDocument(id, company_id, file) ==
    [id |-> id, company_id |-> company_id, filename |-> file.filename,
     content_hash |-> md5(file.content), chunk_count |-> Len(ChunksOf(file))]

(* variant: enumerate(..., 1), the chunk ordinals start at one *)
PointsForOneBased(id, company_id, file) ==
    { [id |-> <<id, i>>, document_id |-> id, document_name |-> file.filename,
       chunk_index |-> i, text |-> ChunksOf(file)[i], company_id |-> company_id]
      : i \in 1..Len(ChunksOf(file)) }

(* the PointStruct list of one upload: one point per chunk *)
PointsFor(id, company_id, file) ==
    { [id |-> <<id, i>>, document_id |-> id, document_name |-> file.filename,
       chunk_index |-> i - 1, text |-> ChunksOf(file)[i], company_id |-> company_id]
      : i \in 1..Len(ChunksOf(file)) }

Collection(size, points) == [size |-> size, distance |-> "Cosine", points |-> points]

OldFile == [filename |-> FileNames.old, content |-> "c0"]

OtherFile == [filename |-> FileNames.pdfU, content |-> "c1"]

-----------------------------------------------------------------------------
(* Requests                                                                 *)

NoSession == <<"none", 0>>

NoContent == <<"none", 0>>

(* the one question asked, and what the LLM answers to request r *)
Question == <<"s","i","c","k"," ","l","e","a","v","e"," ","d","a","y","s">>

Answer(r) == <<"answer", r>>

Sessions == {NoSession, <<"s", 1>>}

IdleReq ==
    [kind |-> "none", company_id |-> T1, worker |-> "w1", file |-> NoFile,
     document_id |-> UnknownDocId, session_id |-> NoSession, pc |-> "idle",
     hold |-> FALSE, obs |-> "none", model |-> 0, status |-> 0, detail |-> "none",
     duplicate |-> FALSE, resp_doc |-> UnknownDocId, calls |-> {},
     upserted |-> FALSE, fail |-> "none", len_points |-> 0, chunks_created |-> 0,
     results |-> <<>>, history |-> <<>>, response |-> NoContent, stamp |-> 0,
     supplied |-> NoSession, conversation |-> <<>>]

(* variant: the handlers run on a thread pool (`def` handlers), so a        *)
(* handler can run while another one of its process is inside a blocking   *)
(* call                                                                     *)
CanRunThreaded(r) == TRUE

(* only the request owning its process's event loop runs; a request at an  *)
(* await does not own it                                                    *)
CanRun(r) ==
    \/ req[r].hold
    \/ \A r2 \in Reqs \ {r} : req[r2].worker = req[r].worker => ~req[r2].hold

(* request slots are taken in order *)
Free(r) == req[r].pc = "idle" /\ \A q \in 1..(r - 1) : req[q].pc # "idle"

(* the handler returns: the request no longer runs on any process *)
Finish(rec, status, detail) ==
    [rec EXCEPT !.pc = "done", !.hold = FALSE, !.worker = "-", !.model = 0,
                !.stamp = 0, !.status = status, !.detail = detail]

Called(rec, names) == [rec EXCEPT !.calls = @ \cup names]

CollOf(r) == get_collection_name(req[r].company_id)

-----------------------------------------------------------------------------
(* Initial states: the stores as earlier runs of the program left them.    *)
(* Tenant T1 has no collection, or one document indexed under the current  *)
(* or under a legacy vector size; tenant T2 has one document.              *)

InitT1 == {"absent", "legacy", "current"}

InitT2 == {"current"}

InitDocs(a, b) ==
    (IF a = "absent" THEN {} ELSE {KnowledgeDocument(LegacyDocId, T1, OldFile)})
    \cup (IF b = "absent" THEN {} ELSE {KnowledgeDocument(OtherDocId, T2, OtherFile)})

InitColls(a, b) ==
    [n \in CollNames |->
        IF n = get_collection_name(T1)
        THEN IF a = "absent" THEN NoColl
             ELSE Collection(IF a = "legacy" THEN LegacyDim ELSE EMBEDDING_DIM,
                             PointsFor(LegacyDocId, T1, OldFile))
        ELSE IF b = "absent" THEN NoColl
             ELSE Collection(EMBEDDING_DIM, PointsFor(OtherDocId, T2, OtherFile))]

Init ==
    /\ req = [r \in Reqs |-> IdleReq]
    /\ \E a \in InitT1, b \in InitT2 :
          /\ docs = InitDocs(a, b)
          /\ colls = InitColls(a, b)
    /\ embedding_model = [w \in Workers |-> 0]
    /\ built = [w \in Workers |-> 0]
    /\ chat_messages = <<>>
    /\ clock = 0
    /\ recreated = [n \in CollNames |-> FALSE]
    /\ chunker = NoCall

-----------------------------------------------------------------------------
(* POST /admin/chat/upload                                                  *)

(* variant: no duplicate check *)
NoDuplicateCheck(t, c) == {}

(* find_one({company_id, content_hash}) *)
Duplicates(t, c) == {d \in docs : d.company_id = t /\ d.content_hash = md5(c)}

(* the handler from its entry to ensure_collection: the filename check,    *)
(* the duplicate check and, when that finds nothing, extraction, the       *)
(* length check and chunking (all local to the handler)                     *)
UploadFindOne(r, t, w, f) ==
    /\ Free(r)
    /\ LET new == [IdleReq EXCEPT !.kind = "upload", !.company_id = t, !.worker = w,
                                  !.file = f, !.document_id = DocId(r)]
           rec == Called(new, {"find_one"})
           dup == Duplicates(t, f.content)
           ex  == ExtractFor(f)
       IN  IF ~SupportedName(f.filename)
           THEN req' = [req EXCEPT ![r] = Finish(new, 400, "unsupported_format")]
           ELSE IF dup # {}
           THEN \E d \in dup :
                   req' = [req EXCEPT ![r] =
                              [Finish(rec, 200, "duplicate")
                                  EXCEPT !.duplicate = TRUE, !.resp_doc = d.id]]
           ELSE req' = [req EXCEPT ![r] =
                   IF ~ex.ok
                   THEN Finish(Called(rec, {"extract"}), 400, "extraction_failed")
                   ELSE IF TooShort(ex.text)
                   THEN Finish(Called(rec, {"extract"}), 400, "no_meaningful_text")
                   ELSE IF ChunksOf(f) = <<>>
                   THEN Finish(Called(rec, {"extract", "chunk_text"}), 400, "too_short")
                   ELSE [Called(rec, {"extract", "chunk_text"})
                            EXCEPT !.pc = "get_collection"]]
    /\ UNCHANGED <<chunker, docs, colls, embedding_model, built, chat_messages, clock, recreated>>

-----------------------------------------------------------------------------
(* ensure_collection, one action per Qdrant call.  fault is an injected    *)
(* failure of the call (service unreachable).                              *)

AfterEnsure(kind) == IF kind = "upload" THEN "embed" ELSE "search"

(* variant: the vector size of an existing collection is not looked at *)
SizeMismatchNever(c) == FALSE

(* variant: every existing collection is taken for a mismatching one *)
SizeMismatchAlways(c) == TRUE

(* collection_info.config.params.vectors.size != EMBEDDING_DIM *)
SizeMismatch(c) == c.size # EMBEDDING_DIM

(* qdrant_client.get_collection and the size test *)
GetCollection(r) ==
    /\ req[r].pc = "get_collection"
    /\ CanRun(r)
    /\ \E fault \in BOOLEAN :
          LET rec == [Called(req[r], {"ensure_collection"}) EXCEPT !.hold = TRUE]
              c   == colls[CollOf(r)]
          IN  req' = [req EXCEPT ![r] =
                 IF fault THEN [rec EXCEPT !.pc = "create_collection", !.obs = "fault"]
                 ELSE IF c = NoColl
                 THEN [rec EXCEPT !.pc = "create_collection", !.obs = "absent"]
                 ELSE IF SizeMismatch(c)
                 THEN [rec EXCEPT !.pc = "delete_collection", !.obs = "mismatch"]
                 ELSE [rec EXCEPT !.pc = AfterEnsure(rec.kind), !.obs = "ok"]]
    /\ UNCHANGED <<chunker, docs, colls, embedding_model, built, chat_messages, clock, recreated>>

(* qdrant_client.delete_collection; whatever it does, the handler goes on  *)
(* to create_collection (the raise inside the try, or the call's own       *)
(* exception, both land in the except branch)                              *)
DeleteCollection(r) ==
    /\ req[r].pc = "delete_collection"
    /\ CanRun(r)
    /\ \E fault \in BOOLEAN :
          IF fault \/ colls[CollOf(r)] = NoColl
          THEN /\ req' = [req EXCEPT ![r].pc = "create_collection",
                                      ![r].obs = "delete_failed"]
               /\ UNCHANGED <<colls, recreated>>
          ELSE /\ req' = [req EXCEPT ![r].pc = "create_collection",
                                      ![r].obs = "deleted"]
               /\ colls' = [colls EXCEPT ![CollOf(r)] = NoColl]
               /\ recreated' = [recreated EXCEPT ![CollOf(r)] = TRUE]
    /\ UNCHANGED <<chunker, docs, embedding_model, built, chat_messages, clock>>

(* qdrant_client.create_collection: fails when the collection exists;      *)
(* nothing in ensure_collection catches that                                *)
CreateCollection(r) ==
    /\ req[r].pc = "create_collection"
    /\ CanRun(r)
    /\ \E fault \in BOOLEAN :
          IF fault
          THEN /\ req' = [req EXCEPT ![r] =
                             [Finish(req[r], 500, "create_fault") EXCEPT !.fail = "create"]]
               /\ UNCHANGED colls
          ELSE IF colls[CollOf(r)] # NoColl
          THEN /\ req' = [req EXCEPT ![r] =
                             [Finish(req[r], 500, "already_exists")
                                 EXCEPT !.fail = "create"]]
               /\ UNCHANGED colls
          ELSE /\ req' = [req EXCEPT ![r].pc = AfterEnsure(req[r].kind)]
               /\ colls' = [colls EXCEPT ![CollOf(r)] = Collection(EMBEDDING_DIM, {})]
    /\ UNCHANGED <<chunker, docs, embedding_model, built, chat_messages, clock, recreated>>

-----------------------------------------------------------------------------
(* get_embedding / get_embeddings_batch                                     *)

(* variant: the metadata insert is issued before the vector upsert *)
AfterEncodeInsertFirst(kind) == IF kind = "upload" THEN "insert" ELSE "get_collection"

AfterEncode(kind) == IF kind = "upload" THEN "upsert" ELSE "get_collection"

(* variant: an embedding failure is logged and the handler goes on *)
EncodedIgnoringFailure(rec, fault) ==
    [rec EXCEPT !.pc = AfterEncode(rec.kind), !.fail = IF fault THEN "embed" ELSE @]

(* model.encode(...) of the caller: the whole batch, or an exception that *)
(* the caller turns into a 500                                              *)
Encoded(rec, fault) ==
    IF fault THEN [Finish(rec, 500, "embedding_failed") EXCEPT !.fail = "embed"]
    ELSE [rec EXCEPT !.pc = AfterEncode(rec.kind)]

(* get_embedding_model with the model loaded: the test `_embedding_model   *)
(* is None` fails, the global is returned and the caller encodes            *)
Embed(r) ==
    /\ req[r].pc = "embed"
    /\ CanRun(r)
    /\ embedding_model[req[r].worker] # 0
    /\ \E fault \in BOOLEAN :
          req' = [req EXCEPT ![r] =
                     Encoded([Called(req[r], {"embed"})
                                 EXCEPT !.hold = TRUE,
                                        !.model = embedding_model[req[r].worker]],
                             fault)]
    /\ UNCHANGED <<chunker, docs, colls, embedding_model, built, chat_messages, clock, recreated>>

(* get_embedding_model with no model loaded: the test succeeds *)
GetEmbeddingModel(r) ==
    /\ req[r].pc = "embed"
    /\ CanRun(r)
    /\ embedding_model[req[r].worker] = 0
    /\ req' = [req EXCEPT ![r] =
                  [Called(req[r], {"embed"}) EXCEPT !.hold = TRUE, !.pc = "load_model"]]
    /\ UNCHANGED <<chunker, docs, colls, embedding_model, built, chat_messages, clock, recreated>>

(* get_embedding_model: SentenceTransformer(...), the assignment to the    *)
(* global and the caller's encode; a failure to load is the except branch  *)
(* of the caller (500)                                                      *)
LoadModel(r) ==
    /\ req[r].pc = "load_model"
    /\ CanRun(r)
    /\ \E loaded \in BOOLEAN, fault \in BOOLEAN :
          IF ~loaded
          THEN /\ ~fault
               /\ req' = [req EXCEPT ![r] =
                             [Finish(req[r], 500, "embedding_failed")
                                 EXCEPT !.fail = "embed"]]
               /\ UNCHANGED <<embedding_model, built>>
          ELSE LET w == req[r].worker
               IN  /\ built' = [built EXCEPT ![w] = @ + 1]
                   /\ embedding_model' = [embedding_model EXCEPT ![w] = built[w] + 1]
                   /\ req' = [req EXCEPT ![r] =
                                 Encoded([req[r] EXCEPT !.model = built[w] + 1], fault)]
    /\ UNCHANGED <<chunker, docs, colls, chat_messages, clock, recreated>>

-----------------------------------------------------------------------------
(* upload, continued: the batch upsert and the metadata insert              *)

(* variant: the upsert is wrapped in a try/except that logs and goes on,   *)
(* as the vector delete of the delete handler is                            *)
UpsertFailedSwallowed(rec) ==
    [rec EXCEPT !.pc = "insert", !.hold = FALSE, !.fail = "upsert"]

(* an exception of the upsert reaches the handler's `except Exception`:   *)
(* a 500, and nothing after the upsert runs                                 *)
UpsertFailed(rec) == [Finish(rec, 500, "upsert_failed") EXCEPT !.fail = "upsert"]

(* qdrant_client.upsert(points, wait=True): all points or an exception;    *)
(* on success the handler awaits insert_one                                 *)
Upsert(r) ==
    /\ req[r].kind = "upload" /\ req[r].pc = "upsert"
    /\ CanRun(r)
    /\ \E fault \in BOOLEAN :
          LET rec == Called(req[r], {"upsert"})
              c   == colls[CollOf(r)]
              pts == PointsFor(rec.document_id, rec.company_id, rec.file)
          IN  IF fault \/ c = NoColl \/ c.size # EMBEDDING_DIM
              THEN /\ req' = [req EXCEPT ![r] = UpsertFailed(rec)]
                   /\ UNCHANGED colls
              ELSE /\ req' = [req EXCEPT ![r] =
                                 [rec EXCEPT !.pc = "insert", !.hold = FALSE,
                                             !.upserted = TRUE,
                                             !.len_points = Cardinality(pts)]]
                   /\ colls' = [colls EXCEPT ![CollOf(r)].points = @ \cup pts]
    /\ UNCHANGED <<chunker, docs, embedding_model, built, chat_messages, clock, recreated>>

(* variant: the index is not unique *)
UniqueIndexNone(doc) == TRUE

(* the unique index on (company_id, content_hash) of create_indexes *)

UniqueIndexAllows(doc) ==
    \A d \in docs : ~(d.company_id = doc.company_id /\ d.content_hash = doc.content_hash)

(* db.knowledge_documents.insert_one(doc.dict()); a DuplicateKeyError is   *)
(* caught by the handler's `except Exception` (500)                         *)
UploadInsertOne(r) ==
    /\ req[r].kind = "upload" /\ req[r].pc = "insert"
    /\ LET rec == Called(req[r], {"insert_one"})
           doc == KnowledgeDocument(rec.document_id, rec.company_id, rec.file)
       IN  IF UniqueIndexAllows(doc)
           THEN /\ docs' = docs \cup {doc}
                /\ req' = [req EXCEPT ![r] =
                              [Finish(rec, 200, "uploaded")
                                  EXCEPT !.resp_doc = doc.id,
                                         !.chunks_created = Len(ChunksOf(rec.file))]]
           ELSE /\ req' = [req EXCEPT ![r] =
                              [Finish(rec, 500, "duplicate_key") EXCEPT !.fail = "insert"]]
                /\ UNCHANGED docs
    /\ UNCHANGED <<chunker, colls, embedding_model, built, chat_messages, clock, recreated>>

-----------------------------------------------------------------------------
(* DELETE /admin/chat/documents/{document_id}                               *)

(* variant: the owner of the record is not looked at *)
OwnedByOtherNever(doc, company_id) == FALSE

(* doc["company_id"] != company_id *)
OwnedByOther(doc, company_id) == doc.company_id # company_id

(* find_one({"id": document_id}) and the 404 / 403 tests *)
DeleteFindOne(r, t, w, id) ==
    /\ Free(r)
    /\ LET rec   == Called([IdleReq EXCEPT !.kind = "delete", !.company_id = t,
                                           !.worker = w, !.document_id = id],
                           {"find_one"})
           found == {d \in docs : d.id = id}
       IN  IF found = {}
           THEN req' = [req EXCEPT ![r] = Finish(rec, 404, "not_found")]
           ELSE \E d \in found :
                   req' = [req EXCEPT ![r] =
                              IF OwnedByOther(d, t)
                              THEN Finish(rec, 403, "forbidden")
                              ELSE [rec EXCEPT !.pc = "del_vectors"]]
    /\ UNCHANGED <<chunker, docs, colls, embedding_model, built, chat_messages, clock, recreated>>

(* variant: a failure of the vector delete ends the request *)
VectorDeleteFailedRaises(rec) ==
    [Finish(rec, 500, "vector_delete_failed") EXCEPT !.obs = "fault"]

(* except Exception: logger.warning(...) and on to the metadata delete *)
VectorDeleteFailed(rec) == [rec EXCEPT !.pc = "del_meta", !.obs = "fault"]

(* variant: the delete takes no filter and clears the collection *)
delete_pointsAll(points, document_id) == {}

(* qdrant_client.delete with the filter document_id == value: the points   *)
(* that stay                                                                *)
delete_points(points, document_id) == {p \in points : p.document_id # document_id}

(* qdrant_client.delete(filter document_id) inside try/except: a failure   *)
(* is logged and ignored                                                    *)
DeleteVectors(r) ==
    /\ req[r].pc = "del_vectors"
    /\ CanRun(r)
    /\ \E fault \in BOOLEAN :
          LET c == colls[CollOf(r)]
          IN  /\ IF fault \/ c = NoColl
                 THEN UNCHANGED colls
                 ELSE colls' = [colls EXCEPT ![CollOf(r)].points =
                                   delete_points(@, req[r].document_id)]
              /\ req' = [req EXCEPT ![r] =
                            IF fault \/ c = NoColl
                            THEN VectorDeleteFailed(Called(req[r], {"qdrant_delete"}))
                            ELSE [Called(req[r], {"qdrant_delete"})
                                     EXCEPT !.pc = "del_meta", !.obs = "ok"]]
    /\ UNCHANGED <<chunker, docs, embedding_model, built, chat_messages, clock, recreated>>

(* delete_one({"id": document_id}) *)
DeleteOne(r) ==
    /\ req[r].pc = "del_meta"
    /\ docs' = {d \in docs : d.id # req[r].document_id}
    /\ req' = [req EXCEPT ![r] = Finish(Called(req[r], {"delete_one"}), 200, "deleted")]
    /\ UNCHANGED <<chunker, colls, embedding_model, built, chat_messages, clock, recreated>>

-----------------------------------------------------------------------------
(* POST /admin/chat                                                         *)

(* variant: every request gets a new session *)
SessionIdAlwaysFresh(supplied, r) == <<"uuid", r>>

(* session_id = request.session_id or str(uuid.uuid4()) *)
SessionIdFor(supplied, r) == IF supplied = NoSession THEN <<"uuid", r>> ELSE supplied

(* the handler's first statements; get_embedding(request.message) follows *)
ChatStart(r, t, w, sid) ==
    /\ Free(r)
    /\ req' = [req EXCEPT ![r] =
                  [IdleReq EXCEPT !.kind = "chat", !.company_id = t, !.worker = w,
                                  !.supplied = sid,
                                  !.session_id = SessionIdFor(sid, r),
                                  !.pc = "embed"]]
    /\ UNCHANGED <<chunker, docs, colls, embedding_model, built, chat_messages, clock, recreated>>

Range(f) == {f[i] : i \in DOMAIN f}

(* the cosine score of a chunk against the question, in ten-thousandths:   *)
(* the share of the question's words the chunk holds                        *)
Score(query, text) ==
    (10000 * Cardinality(Range(split(query)) \cap Range(split(text))))
        \div Cardinality(Range(split(query)))

Hit(p) == [document_name |-> p.document_name, text |-> p.text,
           score |-> Score(Question, p.text), id |-> p.id]

(* the orders query_points can return the hits in: best first, equal       *)
(* scores in any order                                                      *)
RECURSIVE Ranked(_)
Ranked(hits) ==
    IF hits = {} THEN {<<>>}
    ELSE UNION {{<<h>> \o s : s \in Ranked(hits \ {h})} :
                   h \in {x \in hits : \A y \in hits : x.score >= y.score}}

(* query_points(limit, score_threshold): the points scoring at least the   *)
(* threshold, best first, cut to limit                                      *)
query_points(points, limit, threshold) ==
    {SubSeq(s, 1, Min(Len(s), limit)) :
        s \in Ranked({Hit(p) : p \in {q \in points : Score(Question, q.text) >= threshold}})}

(* round(result.score * 100, 1): a percentage in tenths, from a score in   *)
(* ten-thousandths, halves to the even neighbour                            *)
Relevance(score) ==
    LET q == score \div 10
        rem == score % 10
    IN  IF rem > 5 \/ (rem = 5 /\ q % 2 = 1) THEN q + 1 ELSE q

(* variant: one entry per result *)
RECURSIVE SourcesPerResult(_, _)
SourcesPerResult(results, acc) ==
    IF results = <<>> THEN acc
    ELSE SourcesPerResult(Tail(results),
                          Append(acc, [name |-> Head(results).document_name,
                                       relevance |-> Relevance(Head(results).score)]))

(* the source list: one entry per distinct document name, first hit wins   *)
RECURSIVE Sources(_, _)
Sources(results, acc) ==
    IF results = <<>> THEN acc
    ELSE Sources(Tail(results),
                 IF \E i \in DOMAIN acc : acc[i].name = Head(results).document_name
                 THEN acc
                 ELSE Append(acc, [name |-> Head(results).document_name,
                                   relevance |-> Relevance(Head(results).score)]))

(* variant: the assistant turn carries no source names *)
NoSourceNames(results) == <<>>

(* [s["name"] for s in sources] *)
SourceNames(results) ==
    [i \in DOMAIN Sources(results, <<>>) |-> Sources(results, <<>>)[i].name]

(* context_chunks: the text of every result *)
context_chunks(results) == [i \in DOMAIN results |-> results[i].text]

DELIMITER == <<"\n", "\n", "-", "-", "-", "\n", "\n">>

(* delimiter.join(parts) *)
RECURSIVE JoinWith(_, _)
JoinWith(delimiter, parts) ==
    IF parts = <<>> THEN <<>>
    ELSE IF Len(parts) = 1 THEN parts[1]
    ELSE parts[1] \o delimiter \o JoinWith(delimiter, Tail(parts))

(* variant: the chunks are joined with nothing between them *)
ContextNoDelimiter(results) == JoinWith(<<>>, context_chunks(results))

(* "\n\n---\n\n".join(context_chunks) if context_chunks else "" *)
Context(results) ==
    IF context_chunks(results) # <<>> THEN JoinWith(DELIMITER, context_chunks(results))
    ELSE <<>>

(* variant: a failure of the search ends the request *)
SearchFailedRaises(rec) ==
    [Finish(rec, 500, "search_failed") EXCEPT !.fail = "search", !.obs = "search_failed"]

(* except Exception: logger.warning(...); search_results stays [] *)
SearchFailed(rec) == [rec EXCEPT !.obs = "search_failed", !.results = <<>>]

(* query_points inside try/except: a failure leaves search_results empty;  *)
(* sources and context are built; then the handler awaits the history find *)
Search(r) ==
    /\ req[r].kind = "chat" /\ req[r].pc = "search"
    /\ CanRun(r)
    /\ \E fault \in BOOLEAN :
          LET rec == [Called(req[r], {"query_points"})
                         EXCEPT !.pc = "history", !.hold = FALSE]
              c   == colls[CollOf(r)]
          IN  IF fault \/ c = NoColl
              THEN req' = [req EXCEPT ![r] = SearchFailed(rec)]
              ELSE \E res \in query_points(c.points, SEARCH_LIMIT, SCORE_THRESHOLD) :
                      req' = [req EXCEPT ![r] = [rec EXCEPT !.results = res]]
    /\ UNCHANGED <<chunker, docs, colls, embedding_model, built, chat_messages, clock, recreated>>

(* sort("created_at", -1), reversed: oldest first *)
RECURSIVE SortByCreated(_)
SortByCreated(ms) ==
    IF ms = {} THEN <<>>
    ELSE LET m == CHOOSE x \in ms : \A y \in ms : x.created_at <= y.created_at
         IN  <<m>> \o SortByCreated(ms \ {m})

(* variant: the find filters on the session id alone *)
LastTurnsAnyTenant(company_id, session_id, limit) ==
    LET all == SortByCreated({m \in Range(chat_messages) : m.session_id = session_id})
    IN  SubSeq(all, Len(all) - Min(Len(all), limit) + 1, Len(all))

(* find({session_id, company_id}).sort(created_at, -1).limit(10), reversed *)
LastTurns(company_id, session_id, limit) ==
    LET all == SortByCreated({m \in Range(chat_messages) :
                   m.session_id = session_id /\ m.company_id = company_id})
    IN  SubSeq(all, Len(all) - Min(Len(all), limit) + 1, Len(all))

ChatHistory(r) ==
    /\ req[r].kind = "chat" /\ req[r].pc = "history"
    /\ req' = [req EXCEPT ![r] =
                  [Called(req[r], {"find"})
                      EXCEPT !.pc = "llm",
                             !.history = LastTurns(req[r].company_id, req[r].session_id,
                                                   HISTORY_LIMIT)]]
    /\ UNCHANGED <<chunker, docs, colls, embedding_model, built, chat_messages, clock, recreated>>

ChatMessage(rec, role, content, sources, created_at) ==
    [company_id |-> rec.company_id, session_id |-> rec.session_id, role |-> role,
     content |-> content, sources |-> sources, created_at |-> created_at]

SystemMessage == [role |-> "system", content |-> <<"system_prompt", 0>>]

(* variant: the prompt always takes the document-content branch *)
UserMessageAlwaysContext(context, message) == <<"with_context", context, message>>

(* the current message: `if context:` picks the prompt with the document   *)
(* content, else the one saying that no documents were found                *)
UserMessage(context, message) ==
    IF context # <<>> THEN <<"with_context", context, message>>
    ELSE <<"no_documents", message>>

(* conversation: the system prompt, the history, the current message *)
Conversation(history, context, message) ==
    <<SystemMessage>>
    \o [i \in DOMAIN history |-> [role |-> history[i].role, content |-> history[i].content]]
    \o <<[role |-> "user", content |-> UserMessage(context, message)]>>

(* variant: a failure of the LLM call is answered with a stock text *)
GenerationFailedFallback(rec) ==
    [rec EXCEPT !.pc = "insert_user", !.fail = "llm", !.response = <<"fallback", 0>>]

(* except Exception around the LLM call: HTTPException 500 *)
GenerationFailed(rec) ==
    [Finish(rec, 500, "generation_failed") EXCEPT !.fail = "llm"]

(* the conversation is built and groq_client.chat.completions.create is    *)
(* called: a failure is a 500; on success the user ChatMessage is built    *)
(* (created_at = now) and its insert awaited                                *)
ChatLLM(r) ==
    /\ req[r].kind = "chat" /\ req[r].pc = "llm"
    /\ CanRun(r)
    /\ \E fault \in BOOLEAN :
          LET rec == [Called(req[r], {"llm"})
                         EXCEPT !.conversation =
                                    Conversation(req[r].history, Context(req[r].results),
                                                 Question)]
          IN  IF fault
              THEN /\ req' = [req EXCEPT ![r] = GenerationFailed(rec)]
                   /\ UNCHANGED clock
              ELSE /\ req' = [req EXCEPT ![r] =
                                 [rec EXCEPT !.pc = "insert_user", !.response = Answer(r),
                                             !.stamp = clock + 1]]
                   /\ clock' = clock + 1
    /\ UNCHANGED <<chunker, docs, colls, embedding_model, built, chat_messages, recreated>>

(* insert_one(user turn); then the assistant ChatMessage is built and its  *)
(* insert awaited                                                           *)
ChatInsertUser(r) ==
    /\ req[r].kind = "chat" /\ req[r].pc = "insert_user"
    /\ chat_messages' = Append(chat_messages,
                               ChatMessage(req[r], "user", Question, <<>>, req[r].stamp))
    /\ req' = [req EXCEPT ![r] = [Called(req[r], {"insert_user"})
                                     EXCEPT !.pc = "insert_assistant",
                                            !.stamp = clock + 1]]
    /\ clock' = clock + 1
    /\ UNCHANGED <<chunker, docs, colls, embedding_model, built, recreated>>

(* variant: the response is returned without storing the assistant turn *)
ChatReturnWithoutAssistant(r) ==
    /\ req[r].kind = "chat" /\ req[r].pc = "insert_assistant"
    /\ req' = [req EXCEPT ![r] = Finish(req[r], 200, "answered")]
    /\ UNCHANGED <<chunker, docs, colls, embedding_model, built, chat_messages, clock,
                   recreated>>

(* insert_one(assistant turn) and the ChatResponse *)
ChatInsertAssistant(r) ==
    /\ req[r].kind = "chat" /\ req[r].pc = "insert_assistant"
    /\ chat_messages' = Append(chat_messages,
                               ChatMessage(req[r], "assistant", req[r].response,
                                           SourceNames(req[r].results), req[r].stamp))
    /\ req' = [req EXCEPT ![r] = Finish(Called(req[r], {"insert_assistant"}),
                                        200, "answered")]
    /\ UNCHANGED <<chunker, docs, colls, embedding_model, built, clock, recreated>>

-----------------------------------------------------------------------------

DeletableIds == {LegacyDocId, OtherDocId, UnknownDocId} \cup {DocId(r) : r \in Reqs}

(* server processes are interchangeable: the first request runs on w1 *)
WorkersFor(r) == IF r = 1 THEN {"w1"} ELSE Workers

Next ==
    \/ \E r \in Reqs : \E t \in Tenants, w \in WorkersFor(r), f \in Files :
          UploadFindOne(r, t, w, f)
    \/ \E r \in Reqs : GetCollection(r)
    \/ \E r \in Reqs : DeleteCollection(r)
    \/ \E r \in Reqs : CreateCollection(r)
    \/ \E r \in Reqs : Embed(r)
    \/ \E r \in Reqs : GetEmbeddingModel(r)
    \/ \E r \in Reqs : LoadModel(r)
    \/ \E r \in Reqs : Upsert(r)
    \/ \E r \in Reqs : UploadInsertOne(r)
    \/ \E r \in Reqs : \E t \in Tenants, w \in WorkersFor(r), id \in DeletableIds :
          DeleteFindOne(r, t, w, id)
    \/ \E r \in Reqs : DeleteVectors(r)
    \/ \E r \in Reqs : DeleteOne(r)
    \/ \E r \in Reqs : \E t \in Tenants, w \in WorkersFor(r), sid \in Sessions :
          ChatStart(r, t, w, sid)
    \/ \E r \in Reqs : Search(r)
    \/ \E r \in Reqs : ChatHistory(r)
    \/ \E r \in Reqs : ChatLLM(r)
    \/ \E r \in Reqs : ChatInsertUser(r)
    \/ \E r \in Reqs : ChatInsertAssistant(r)

Spec == Init /\ [][Next]_vars

-----------------------------------------------------------------------------
(* The chat handler over a larger knowledge base and a longer transcript,  *)
(* as earlier uploads of long documents and earlier chats left them.  Each *)
(* chunk is shortened to the words that decide its score.                  *)

Point(document_id, i, filename, text, company_id) ==
    [id |-> <<document_id, i + 1>>, document_id |-> document_id,
     document_name |-> filename, chunk_index |-> i, text |-> text,
     company_id |-> company_id]

(* three documents of T1; the first and the third were uploaded under the  *)
(* same file name with different bytes                                      *)
HandbookPoints ==
    { Point(<<"h", 1>>, 0, FileNames.pdfU,
            <<"s","i","c","k"," ","l","e","a","v","e"," ","d","a","y","s">>, T1),
      Point(<<"h", 1>>, 1, FileNames.pdfU, <<"s","i","c","k"," ","l","e","a","v","e">>, T1),
      Point(<<"h", 1>>, 2, FileNames.pdfU, <<"m","e","m","o">>, T1),
      Point(<<"h", 2>>, 0, FileNames.old, <<"l","e","a","v","e"," ","d","a","y","s">>, T1),
      Point(<<"h", 2>>, 1, FileNames.old, <<"d","a","y","s">>, T1),
      Point(<<"h", 2>>, 2, FileNames.old,
            <<"p","a","y","d","a","y"," ","l","e","a","v","e">>, T1),
      Point(<<"h", 3>>, 0, FileNames.pdfU,
            <<"d","a","y","s"," ","s","i","c","k"," ","l","e","a","v","e">>, T1) }

HandbookDocs ==
    { [id |-> <<"h", 1>>, company_id |-> T1, filename |-> FileNames.pdfU,
       content_hash |-> "aa01", chunk_count |-> 3],
      [id |-> <<"h", 2>>, company_id |-> T1, filename |-> FileNames.old,
       content_hash |-> "aa02", chunk_count |-> 3],
      [id |-> <<"h", 3>>, company_id |-> T1, filename |-> FileNames.pdfU,
       content_hash |-> "aa03", chunk_count |-> 1] }

OtherSession == <<"s", 2>>

Turn(company_id, session_id, k, created_at) ==
    [company_id |-> company_id, session_id |-> session_id,
     role |-> IF k % 2 = 1 THEN "user" ELSE "assistant",
     content |-> <<"turn", k>>, sources |-> <<>>, created_at |-> created_at]

(* twelve turns of (T1, session 1), then two of (T2, session 1) and two of *)
(* (T1, session 2); two concurrent chats stored turns 5..8 out of the      *)
(* order of their created_at                                                *)
LongTranscript ==
    LET at == <<1, 2, 3, 4, 7, 5, 8, 6, 9, 10, 11, 12>>
    IN  [i \in DOMAIN at |-> Turn(T1, <<"s", 1>>, at[i], at[i])]
        \o <<Turn(T2, <<"s", 1>>, 13, 13), Turn(T2, <<"s", 1>>, 14, 14),
             Turn(T1, OtherSession, 15, 15), Turn(T1, OtherSession, 16, 16)>>

InitChatKB == {"legacy", "handbook"}

InitChatTranscript == {<<>>, LongTranscript}

InitChat ==
    /\ req = [r \in Reqs |-> IdleReq]
    /\ \E kb \in InitChatKB :
          /\ docs = (IF kb = "handbook" THEN HandbookDocs ELSE InitDocs("legacy", "current"))
                    \cup InitDocs("absent", "current")
          /\ colls = IF kb = "handbook"
                     THEN [InitColls("absent", "current") EXCEPT
                              ![get_collection_name(T1)] =
                                  Collection(EMBEDDING_DIM, HandbookPoints)]
                     ELSE InitColls("legacy", "current")
    /\ embedding_model = [w \in Workers |-> 0]
    /\ built = [w \in Workers |-> 0]
    /\ chat_messages \in InitChatTranscript
    /\ clock = IF chat_messages = <<>> THEN 0 ELSE 16
    /\ recreated = [n \in CollNames |-> FALSE]
    /\ chunker = NoCall

NextChat ==
    \/ \E r \in Reqs : \E t \in Tenants, w \in WorkersFor(r), sid \in Sessions :
          ChatStart(r, t, w, sid)
    \/ \E r \in Reqs : Embed(r)
    \/ \E r \in Reqs : GetEmbeddingModel(r)
    \/ \E r \in Reqs : LoadModel(r)
    \/ \E r \in Reqs : GetCollection(r)
    \/ \E r \in Reqs : DeleteCollection(r)
    \/ \E r \in Reqs : CreateCollection(r)
    \/ \E r \in Reqs : Search(r)
    \/ \E r \in Reqs : ChatHistory(r)
    \/ \E r \in Reqs : ChatLLM(r)
    \/ \E r \in Reqs : ChatInsertUser(r)
    \/ \E r \in Reqs : ChatInsertAssistant(r)

SpecChat == InitChat /\ [][NextChat]_vars

-----------------------------------------------------------------------------
(* The upload handler over documents of several chunks                     *)

NextIngest ==
    \/ \E r \in Reqs : \E t \in Tenants, w \in WorkersFor(r), f \in IngestFiles :
          UploadFindOne(r, t, w, f)
    \/ \E r \in Reqs : GetCollection(r)
    \/ \E r \in Reqs : DeleteCollection(r)
    \/ \E r \in Reqs : CreateCollection(r)
    \/ \E r \in Reqs : Embed(r)
    \/ \E r \in Reqs : GetEmbeddingModel(r)
    \/ \E r \in Reqs : LoadModel(r)
    \/ \E r \in Reqs : Upsert(r)
    \/ \E r \in Reqs : UploadInsertOne(r)

SpecIngest == Init /\ [][NextIngest]_vars

-----------------------------------------------------------------------------
(* chunk_text on its own: the stores are empty and no request is served    *)

InitChunk ==
    /\ req = [r \in Reqs |-> IdleReq]
    /\ docs = {}
    /\ colls = [n \in CollNames |-> NoColl]
    /\ embedding_model = [w \in Workers |-> 0]
    /\ built = [w \in Workers |-> 0]
    /\ chat_messages = <<>>
    /\ clock = 0
    /\ recreated = [n \in CollNames |-> FALSE]
    /\ chunker \in ChunkCalls

NextChunk ==
    \/ ChunkCall
    \/ ChunkRecall

SpecChunk == InitChunk /\ [][NextChunk]_vars

-----------------------------------------------------------------------------
(* Properties                                                               *)

Uploads == {r \in Reqs : req[r].kind = "upload"}

HasRecord(r) == \E d \in docs : d.id = DocId(r)

PointsOfDoc(id) == UNION {{p \in colls[n].points : p.document_id = id} : n \in CollNames}

(* every chunk of the record has a point in the owning tenant's collection *)
HasPoints(d) ==
    \A i \in 0..(d.chunk_count - 1) :
        \E p \in colls[get_collection_name(d.company_id)].points :
            p.document_id = d.id /\ p.chunk_index = i

Quiescent == \A r \in Reqs : req[r].pc \in {"idle", "done"}

(* C1: the metadata record of an upload is inserted only after the batch   *)
(* upsert of its points returned success; an upload whose upsert failed    *)
(* never performs the metadata insert.                                      *)
C1_InsertOnlyAfterUpsert ==
    \A r \in Uploads :
        /\ (HasRecord(r) \/ "insert_one" \in req[r].calls \/ req[r].pc = "insert")
              => req[r].upserted
        /\ req[r].fail = "upsert"
              => ~HasRecord(r) /\ "insert_one" \notin req[r].calls /\ req[r].pc = "done"

C1_Witness ==
    \E r1, r2 \in Uploads :
        /\ req[r1].detail = "uploaded" /\ HasRecord(r1) /\ req[r1].upserted
        /\ req[r2].fail = "upsert"

(* C2 as claimed: once no request is in flight, every metadata record has  *)
(* its vector points in its tenant's collection, whatever requests ran     *)
(* (dimension-mismatch recreation included) and whatever failed.           *)
C2_MetadataImpliesVectors == Quiescent => \A d \in docs : HasPoints(d)

BeingDeleted(id) ==
    \E r \in Reqs : req[r].kind = "delete" /\ req[r].pc = "del_meta"
                    /\ req[r].document_id = id

(* C2 as amended: in every reachable state, every metadata record of a     *)
(* tenant whose collection no ensure_collection call has destroyed         *)
(* (dimension-mismatch recreation), and that no delete request is in the   *)
(* middle of removing, has its vector points in the tenant's collection.   *)
C2_MetadataImpliesVectorsUnlessRecreated ==
    \A d \in docs :
        (~recreated[get_collection_name(d.company_id)] /\ ~BeingDeleted(d.id))
            => HasPoints(d)

C2_Witness ==
    \E r \in Uploads :
        /\ req[r].detail = "uploaded"
        /\ \E d \in docs : d.id = DocId(r) /\ HasPoints(d)
                           /\ ~recreated[get_collection_name(d.company_id)]
        /\ \E q \in Reqs : req[q].fail # "none"

(* C3: an upload whose batch embedding or vector upsert failed has, once   *)
(* it has returned, no metadata record and no point carrying its document  *)
(* id in any collection.                                                    *)
C3_IngestionAtomicity ==
    \A r \in Uploads :
        (req[r].pc = "done" /\ req[r].fail \in {"embed", "upsert"})
            => ~HasRecord(r) /\ PointsOfDoc(DocId(r)) = {}

C3_Witness ==
    \E r1, r2 \in Uploads :
        /\ req[r1].pc = "done" /\ req[r1].fail = "embed"
        /\ req[r2].pc = "done" /\ req[r2].fail = "upsert"

(* the file names that end in none of .pdf, .doc, .docx, whatever the case *)
UnsupportedNames == {FileNames.txt, FileNames.nodot}

RecordsFor(t, c) == {d \in docs : d.company_id = t /\ d.content_hash = md5(c)}

Arrives(r) == req[r].pc = "idle" /\ req'[r].kind = "upload"

(* C4: an upload of bytes for which the tenant already holds a record      *)
(* returns duplicate=true with that record's id, makes no call but the     *)
(* duplicate-check read, and leaves exactly one record for the bytes.      *)
C4_DuplicateUploadIsNoOp ==
    [][\A r \in Reqs :
          (/\ Arrives(r)
           /\ req'[r].file.filename \notin UnsupportedNames
           /\ RecordsFor(req'[r].company_id, req'[r].file.content) # {})
          => /\ req'[r].pc = "done" /\ req'[r].status = 200 /\ req'[r].duplicate
             /\ \E d \in RecordsFor(req'[r].company_id, req'[r].file.content) :
                    req'[r].resp_doc = d.id
             /\ req'[r].calls = {"find_one"}
             /\ docs' = docs /\ colls' = colls
             /\ Cardinality({d \in docs' : /\ d.company_id = req'[r].company_id
                                           /\ d.content_hash = md5(req'[r].file.content)})
                   = 1]_vars

C4_Witness ==
    \E r1, r2 \in Uploads :
        /\ r1 # r2
        /\ req[r1].detail = "uploaded" /\ HasRecord(r1)
        /\ req[r2].duplicate /\ req[r2].resp_doc = DocId(r1)
        /\ req[r2].file.content = req[r1].file.content

C6_UnsupportedFormatRejectedFirst ==
    [][\A r \in Reqs :
          (Arrives(r) /\ req'[r].file.filename \in UnsupportedNames)
          => /\ req'[r].pc = "done" /\ req'[r].status = 400
             /\ req'[r].detail = "unsupported_format"
             /\ req'[r].calls = {}
             /\ docs' = docs /\ colls' = colls /\ chat_messages' = chat_messages]_vars

C6_Witness ==
    \E r \in Uploads :
        /\ req[r].file.filename = FileNames.nodot
        /\ req[r].status = 400 /\ req[r].detail = "unsupported_format"
        /\ RecordsFor(req[r].company_id, req[r].file.content) # {}

(* the extracted, trimmed text is shorter than 10 characters *)
ShortText(f) == ExtractFor(f).ok /\ Len(strip(ExtractFor(f).text)) < 10

(* C7: an upload whose extracted text is, after trimming, shorter than 10  *)
(* characters is refused with a client error before ensure_collection,     *)
(* embedding or any write; collections and metadata are unchanged.         *)
C7_ShortTextRejectedBeforeWrites ==
    [][\A r \in Reqs :
          (/\ Arrives(r)
           /\ req'[r].file.filename \notin UnsupportedNames
           /\ RecordsFor(req'[r].company_id, req'[r].file.content) = {}
           /\ ShortText(req'[r].file))
          => /\ req'[r].pc = "done" /\ req'[r].status = 400
             /\ req'[r].calls \cap {"ensure_collection", "embed", "upsert", "insert_one"}
                   = {}
             /\ docs' = docs /\ colls' = colls]_vars

C7_Witness ==
    \E r1, r2 \in Uploads :
        /\ req[r1].file.content = "c2" /\ req[r1].detail = "no_meaningful_text"
        /\ req[r2].file.content = "c4" /\ req[r2].detail = "no_meaningful_text"

Returned(r) ==
    /\ req[r].pc \in {"get_collection", "create_collection"}
    /\ req'[r].pc = AfterEnsure(req[r].kind)

(* C8: when ensure_collection returns, the tenant's collection exists with *)
(* the active vector size and the cosine metric; a collection it created   *)
(* is empty; a mismatching collection is destroyed by its delete call; and *)
(* its create call, made when no collection exists, raises nothing unless  *)
(* the call itself is made to fail.                                         *)
C8_EnsureCollectionPostcondition ==
    [][\A r \in Reqs :
          /\ Returned(r)
                => /\ colls'[CollOf(r)] # NoColl
                   /\ colls'[CollOf(r)].size = EMBEDDING_DIM
                   /\ colls'[CollOf(r)].distance = "Cosine"
          /\ (Returned(r) /\ req[r].pc = "create_collection")
                => colls'[CollOf(r)].points = {}
          /\ (req[r].pc = "delete_collection" /\ req'[r].obs = "deleted")
                => colls[CollOf(r)] # NoColl /\ colls'[CollOf(r)] = NoColl
          /\ (/\ req[r].pc = "create_collection" /\ req'[r].pc # "create_collection"
              /\ colls[CollOf(r)] = NoColl /\ req'[r].detail # "create_fault")
                => Returned(r)]_vars

C8_Witness ==
    \E r \in Reqs :
        /\ req[r].obs = "deleted"
        /\ req[r].pc = AfterEnsure(req[r].kind)
        /\ colls[CollOf(r)] = Collection(EMBEDDING_DIM, {})
        /\ recreated[CollOf(r)]

(* C9: a caller of ensure_collection that saw the collection absent        *)
(* completes without error even when another caller creates the collection *)
(* first: an 'already exists' answer of create is taken as success.        *)
C9_ConcurrentEnsureConverges ==
    \A r \in Reqs : req[r].obs = "absent" => req[r].detail # "already_exists"

(* C10: within a process at most one embedding model is ever constructed,  *)
(* and every caller of get_embedding_model gets that one instance.         *)
C10_OneModelPerProcess ==
    /\ \A w \in Workers : built[w] <= 1
    /\ \A r \in Reqs :
          req[r].model # 0 => /\ req[r].model = 1
                              /\ embedding_model[req[r].worker] = req[r].model

C10_Witness ==
    \E r1, r2 \in Reqs :
        /\ r1 # r2
        /\ req[r1].worker = req[r2].worker
        /\ req[r1].model = 1 /\ req[r2].model = 1
        /\ built[req[r1].worker] = 1

Chats == {r \in Reqs : req[r].kind = "chat"}

(* the current message of the conversation sent to the LLM *)
CurrentMessage(r) == req[r].conversation[Len(req[r].conversation)]

NoDocumentsPrompt == [role |-> "user", content |-> <<"no_documents", Question>>]

(* C11: a chat request whose vector search call failed goes on with zero   *)
(* results: empty context, empty source list, the LLM called with the      *)
(* no-documents prompt; it ends in error only if the LLM call itself       *)
(* fails, and otherwise succeeds.                                           *)
C11_SearchFailureSwallowed ==
    \A r \in Chats :
        req[r].obs = "search_failed" =>
            /\ req[r].results = <<>>
            /\ Context(req[r].results) = <<>>
            /\ Sources(req[r].results, <<>>) = <<>>
            /\ req[r].pc \in {"history", "llm", "insert_user", "insert_assistant", "done"}
            /\ "llm" \in req[r].calls => CurrentMessage(r) = NoDocumentsPrompt
            /\ req[r].pc = "done" =>
                  /\ "llm" \in req[r].calls
                  /\ req[r].fail \in {"none", "llm"}
                  /\ req[r].fail = "none" =>
                        req[r].status = 200 /\ req[r].response = Answer(r)

C11_Witness ==
    \E r \in Chats :
        /\ req[r].obs = "search_failed"
        /\ req[r].pc = "done" /\ req[r].status = 200
        /\ \E p \in colls[CollOf(r)].points : Score(Question, p.text) >= SCORE_THRESHOLD

(* every vector-index call the finished request made failed because the    *)
(* index could not be reached: get_collection failed, then create did,     *)
(* and the search was never attempted                                       *)
IndexUnreachable(r) ==
    /\ req[r].pc = "done"
    /\ "ensure_collection" \in req[r].calls
    /\ req[r].obs = "fault"
    /\ "query_points" \notin req[r].calls
    /\ req[r].detail # "already_exists"

(* C12: a chat request during which the vector index is unreachable does   *)
(* not fail: it degrades to no context and still returns an assistant      *)
(* response.                                                                *)
C12_ChatSurvivesUnreachableIndex ==
    \A r \in Chats :
        IndexUnreachable(r) =>
            \/ req[r].status = 200 /\ req[r].response = Answer(r)
            \/ req[r].fail = "llm"

(* the tenant has nothing ingested: no collection, or one without points *)
EmptyKnowledgeBase(n) == colls[n] = NoColl \/ colls[n].points = {}

Leaves(r, pc) == req[r].kind = "chat" /\ req[r].pc = pc /\ req'[r].pc # pc

(* C13: a chat request for a tenant with nothing ingested does not error:  *)
(* a missing collection is created, the search gives an empty context and  *)
(* an empty source list, the LLM gets the no-documents prompt, and the     *)
(* request ends successfully with the LLM's text; a chat request ends in   *)
(* error only when a call to a collaborator failed.                        *)
C13_EmptyKnowledgeBaseFallback ==
    [][\A r \in Reqs :
          /\ (/\ Leaves(r, "create_collection") /\ colls[CollOf(r)] = NoColl
              /\ req'[r].detail # "create_fault")
                => req'[r].pc = "search" /\ colls'[CollOf(r)].points = {}
          /\ (Leaves(r, "search") /\ EmptyKnowledgeBase(CollOf(r)))
                => /\ req'[r].pc = "history"
                   /\ req'[r].results = <<>>
                   /\ Context(req'[r].results) = <<>>
                   /\ Sources(req'[r].results, <<>>) = <<>>
          /\ (Leaves(r, "llm") /\ req[r].results = <<>>)
                => /\ CurrentMessage(r)' = NoDocumentsPrompt
                   /\ req'[r].fail # "llm"
                         => req'[r].pc = "insert_user" /\ req'[r].response = Answer(r)
                            /\ req'[r].response # NoContent
          /\ (Leaves(r, "insert_assistant") /\ req[r].results = <<>>)
                => /\ req'[r].pc = "done" /\ req'[r].status = 200
                   /\ chat_messages'[Len(chat_messages')].sources = <<>>
          /\ (req[r].kind = "chat" /\ req[r].pc # "done" /\ req'[r].pc = "done"
              /\ req'[r].status # 200)
                => req'[r].fail \in {"embed", "create", "llm"}]_vars

C13_Witness ==
    \E r \in Chats :
        /\ req[r].obs = "absent"
        /\ req[r].pc = "done" /\ req[r].status = 200
        /\ req[r].results = <<>>
        /\ CurrentMessage(r) = NoDocumentsPrompt
        /\ colls[CollOf(r)] = Collection(EMBEDDING_DIM, {})

(* the positions of the results that belong to a document name *)
ResultsOf(results, name) == {k \in DOMAIN results : results[k].document_name = name}

FirstOf(results, name) ==
    CHOOSE k \in ResultsOf(results, name) : \A j \in ResultsOf(results, name) : k <= j

BestScore(results, name) ==
    CHOOSE x \in {results[k].score : k \in ResultsOf(results, name)} :
        \A k \in ResultsOf(results, name) : x >= results[k].score

(* C14: the source list of a chat holds each distinct document name among  *)
(* the search results exactly once, with the relevance of the first        *)
(* (highest-scoring) result of that name, in descending order of each      *)
(* name's best score.                                                       *)
C14_SourcesDistinctBestFirst ==
    \A r \in Chats :
        LET results == req[r].results
            sources == Sources(results, <<>>)
        IN  /\ \A i, j \in DOMAIN sources : sources[i].name = sources[j].name => i = j
            /\ {sources[i].name : i \in DOMAIN sources}
                  = {results[k].document_name : k \in DOMAIN results}
            /\ \A i \in DOMAIN sources :
                  sources[i].relevance
                     = Relevance(results[FirstOf(results, sources[i].name)].score)
            /\ \A i \in DOMAIN sources :
                  results[FirstOf(results, sources[i].name)].score
                     = BestScore(results, sources[i].name)
            /\ \A i, j \in DOMAIN sources :
                  i < j => BestScore(results, sources[i].name)
                              >= BestScore(results, sources[j].name)

(* five results of three documents under two names, the best two tied *)
C14_Witness ==
    \E r \in Chats :
        LET results == req[r].results
        IN  /\ Len(results) = SEARCH_LIMIT
            /\ Len(Sources(results, <<>>)) = 2
            /\ results[1].score = results[2].score
            /\ results[1].document_name = results[2].document_name
            /\ results[1].id[1] # results[2].id[1]
            /\ req[r].pc = "done" /\ req[r].status = 200
            /\ chat_messages[Len(chat_messages)].sources = SourceNames(results)

(* the points of a collection that match the question *)
Matched(n) ==
    IF colls[n] = NoColl THEN {}
    ELSE {p \in colls[n].points : Score(Question, p.text) >= SCORE_THRESHOLD}

(* where the k-th chunk starts in the context *)
RECURSIVE Offset(_, _)
Offset(results, k) ==
    IF k = 1 THEN 1
    ELSE Offset(results, k - 1) + Len(results[k - 1].text) + Len(DELIMITER)

(* the context is the chunk texts in order with the delimiter between *)
IsContextOf(context, results) ==
    LET n == Len(results)
    IN  /\ n = 0 <=> context = <<>>
        /\ n > 0 => Len(context) = Offset(results, n) + Len(results[n].text) - 1
        /\ \A k \in 1..n :
              SubSeq(context, Offset(results, k),
                     Offset(results, k) + Len(results[k].text) - 1) = results[k].text
        /\ \A k \in 1..(n - 1) :
              SubSeq(context, Offset(results, k) + Len(results[k].text),
                     Offset(results, k + 1) - 1) = DELIMITER

(* C15: the results of a search that did not fail are the matching points  *)
(* of the tenant's collection (score at least the threshold), the best     *)
(* five of them when more match, each once, best first; the context is     *)
(* their chunk texts, one per result, in that order, joined by the         *)
(* delimiter, empty exactly when there is no result; and that context is   *)
(* what the prompt sent to the LLM holds.                                   *)
C15_ContextIsMatchedChunks ==
    [][\A r \in Reqs :
          /\ (Leaves(r, "search") /\ req'[r].obs # "search_failed")
                => LET results == req'[r].results
                       matched == Matched(CollOf(r))
                   IN  /\ Len(results) = Min(Cardinality(matched), SEARCH_LIMIT)
                       /\ \A k \in DOMAIN results :
                             \E p \in matched :
                                /\ results[k].id = p.id /\ results[k].text = p.text
                                /\ results[k].score = Score(Question, p.text)
                                /\ results[k].score >= SCORE_THRESHOLD
                       /\ \A j, k \in DOMAIN results :
                             /\ results[j].id = results[k].id => j = k
                             /\ j < k => results[j].score >= results[k].score
                       /\ \A p \in matched :
                             (\A k \in DOMAIN results : results[k].id # p.id)
                                => \A k \in DOMAIN results :
                                      results[k].score >= Score(Question, p.text)
                       /\ (Context(results) = <<>>) <=> (matched = {})
          /\ Leaves(r, "search") => IsContextOf(Context(req'[r].results), req'[r].results)
          /\ Leaves(r, "llm")
                => /\ IsContextOf(Context(req[r].results), req[r].results)
                   /\ req[r].results # <<>>
                         => CurrentMessage(r)'.content
                               = <<"with_context", Context(req[r].results), Question>>]_vars

(* five of six matching points were returned, two of them chunks of one    *)
(* document, and the prompt was sent                                        *)
C15_Witness ==
    \E r \in Chats :
        /\ Len(req[r].results) = SEARCH_LIMIT
        /\ Cardinality(Matched(CollOf(r))) > SEARCH_LIMIT
        /\ \E j, k \in DOMAIN req[r].results :
              j # k /\ req[r].results[j].id[1] = req[r].results[k].id[1]
        /\ "llm" \in req[r].calls
        /\ CurrentMessage(r).content[1] = "with_context"

(* C16: a chat request whose LLM call fails persists nothing: the step     *)
(* that returns the generation error leaves the transcript store as it     *)
(* was, and the request makes neither the user insert nor the assistant    *)
(* insert, before or after.                                                 *)
C16_FailedGenerationPersistsNothing ==
    [][\A r \in Reqs :
          /\ (Leaves(r, "llm") /\ req'[r].fail = "llm")
                => /\ chat_messages' = chat_messages
                   /\ req'[r].pc = "done" /\ req'[r].status = 500
                   /\ req'[r].calls \cap {"insert_user", "insert_assistant"} = {}
          /\ (req[r].kind = "chat" /\ req[r].fail = "llm")
                => req'[r] = req[r]]_vars

C16_Witness ==
    \E r1, r2 \in Chats :
        /\ req[r1].fail = "llm" /\ req[r1].pc = "done" /\ req[r1].status = 500
        /\ req[r2].pc = "done" /\ req[r2].status = 200
        /\ req[r2].session_id = req[r1].session_id
        /\ req[r2].company_id = req[r1].company_id
        /\ Len(chat_messages) = 2

LastStored == chat_messages'[Len(chat_messages')]

(* C17: a successful chat persists its user turn and then its assistant    *)
(* turn, each by an insert of its own, both after the LLM call succeeded,  *)
(* both under the request's tenant and session id; the assistant turn      *)
(* carries the names of the source list, in its order.                     *)
C17_TurnsPersistedAfterGeneration ==
    [][\A r \in Reqs :
          /\ Leaves(r, "insert_user")
                => /\ chat_messages' = Append(chat_messages, LastStored)
                   /\ LastStored.role = "user" /\ LastStored.content = Question
                   /\ LastStored.company_id = req[r].company_id
                   /\ LastStored.session_id = req[r].session_id
                   /\ "llm" \in req[r].calls /\ req[r].fail = "none"
                   /\ req[r].response = Answer(r)
                   /\ "insert_user" \notin req[r].calls
                   /\ req'[r].pc = "insert_assistant"
          /\ Leaves(r, "insert_assistant")
                => /\ chat_messages' = Append(chat_messages, LastStored)
                   /\ LastStored.role = "assistant"
                   /\ LastStored.content = req[r].response
                   /\ LastStored.company_id = req[r].company_id
                   /\ LastStored.session_id = req[r].session_id
                   /\ LastStored.sources
                         = [i \in DOMAIN Sources(req[r].results, <<>>) |->
                               Sources(req[r].results, <<>>)[i].name]
                   /\ "llm" \in req[r].calls /\ "insert_user" \in req[r].calls
                   /\ "insert_assistant" \notin req[r].calls
                   /\ req'[r].pc = "done" /\ req'[r].status = 200
          /\ (req[r].kind = "chat" /\ req[r].pc # "done" /\ req'[r].pc = "done"
              /\ req'[r].status = 200)
                => req[r].pc = "insert_assistant"
          /\ chat_messages' # chat_messages
                => \E q \in Reqs : Leaves(q, "insert_user") \/ Leaves(q, "insert_assistant")
      ]_vars

C17_Witness ==
    \E r \in Chats :
        /\ req[r].pc = "done" /\ req[r].status = 200
        /\ Len(chat_messages) = 2
        /\ chat_messages[1].role = "user" /\ chat_messages[2].role = "assistant"
        /\ chat_messages[2].sources # <<>>
        /\ chat_messages[2].session_id = req[r].session_id

(* the stored turns of the request's tenant and session *)
TurnsOf(r) ==
    {m \in Range(chat_messages) :
        m.company_id = req[r].company_id /\ m.session_id = req[r].session_id}

(* C18: the history a chat reads is the stored turns of its own tenant and *)
(* session, the 10 with the latest created_at when there are more, oldest  *)
(* first; the conversation sent to the LLM is the system message, that     *)
(* history (role and content), then the current user message.              *)
C18_ConversationIsOwnRecentHistory ==
    [][\A r \in Reqs :
          /\ Leaves(r, "history")
                => LET h == req'[r].history
                   IN  /\ Len(h) = Min(Cardinality(TurnsOf(r)), HISTORY_LIMIT)
                       /\ \A k \in DOMAIN h : h[k] \in TurnsOf(r)
                       /\ \A j, k \in DOMAIN h :
                             j < k => h[j].created_at < h[k].created_at
                       /\ \A m \in TurnsOf(r) :
                             (\A k \in DOMAIN h : h[k] # m)
                                => \A k \in DOMAIN h : m.created_at <= h[k].created_at
          /\ Leaves(r, "llm")
                => LET c == req'[r].conversation
                       h == req[r].history
                   IN  /\ Len(c) = Len(h) + 2
                       /\ Len(h) <= HISTORY_LIMIT
                       /\ c[1] = SystemMessage
                       /\ \A k \in DOMAIN h :
                             c[k + 1] = [role |-> h[k].role, content |-> h[k].content]
                       /\ c[Len(c)].role = "user"
                       /\ c[Len(c)].content[Len(c[Len(c)].content)] = Question]_vars

(* a chat in a session of twelve stored turns got the last ten, while the  *)
(* store also held turns of another tenant under the same session id       *)
C18_Witness ==
    \E r \in Chats :
        /\ req[r].pc = "done" /\ req[r].status = 200
        /\ Len(req[r].history) = HISTORY_LIMIT
        /\ req[r].history[1].created_at = 3
        /\ Len(req[r].conversation) = HISTORY_LIMIT + 2
        /\ \E m \in Range(chat_messages) :
              m.session_id = req[r].session_id /\ m.company_id # req[r].company_id

ChatArrives(r) == req[r].pc = "idle" /\ req'[r].kind = "chat"

(* C19: a chat request that supplies a session id keeps that id: it is the *)
(* id of the response and of both turns it persists; a request without one *)
(* gets an id that no other request and no stored turn has.                *)
C19_SessionContinuity ==
    [][\A r \in Reqs :
          /\ (ChatArrives(r) /\ req'[r].supplied # NoSession)
                => req'[r].session_id = req'[r].supplied
          /\ (ChatArrives(r) /\ req'[r].supplied = NoSession)
                => /\ req'[r].session_id \notin Sessions
                   /\ \A m \in Range(chat_messages) : m.session_id # req'[r].session_id
                   /\ \A q \in Reqs \ {r} : req[q].session_id # req'[r].session_id
          /\ req[r].kind = "chat"
                => /\ req'[r].session_id = req[r].session_id
                   /\ req'[r].supplied = req[r].supplied
          /\ (Leaves(r, "insert_user") \/ Leaves(r, "insert_assistant"))
                => LastStored.session_id = req[r].session_id]_vars

(* two finished chats, one continuing the supplied session and one under a *)
(* generated id, each with its two turns stored under its id               *)
C19_Witness ==
    \E r1, r2 \in Chats :
        /\ req[r1].pc = "done" /\ req[r1].status = 200
        /\ req[r2].pc = "done" /\ req[r2].status = 200
        /\ req[r1].supplied # NoSession /\ req[r1].session_id = req[r1].supplied
        /\ req[r2].supplied = NoSession /\ req[r2].session_id \notin Sessions
        /\ Cardinality({i \in DOMAIN chat_messages :
                           chat_messages[i].session_id = req[r1].session_id}) = 2
        /\ Cardinality({i \in DOMAIN chat_messages :
                           chat_messages[i].session_id = req[r2].session_id}) = 2

DeleteLeaves(r, pc) == req[r].kind = "delete" /\ req[r].pc = pc /\ req'[r].pc # pc

(* C20: a delete request whose vector delete call failed goes on to remove *)
(* the document's metadata record and reports success; every delete        *)
(* request that reaches the metadata delete removes the record.            *)
C20_DeleteBestEffortOnVectors ==
    [][\A r \in Reqs :
          /\ (DeleteLeaves(r, "del_vectors") /\ req'[r].obs = "fault")
                => /\ req'[r].pc = "del_meta"
                   /\ colls' = colls /\ docs' = docs
          /\ DeleteLeaves(r, "del_meta")
                => /\ req'[r].pc = "done" /\ req'[r].status = 200
                   /\ docs' = {d \in docs : d.id # req[r].document_id}
          /\ (req[r].kind = "delete" /\ req[r].pc # "done" /\ req'[r].pc = "done"
              /\ req'[r].obs = "fault")
                => /\ req'[r].status = 200
                   /\ \A d \in docs' : d.id # req[r].document_id]_vars

(* the vector delete failed, the record is gone, the points are still there *)
C20_Witness ==
    \E r \in Reqs :
        /\ req[r].kind = "delete" /\ req[r].pc = "done" /\ req[r].status = 200
        /\ req[r].obs = "fault"
        /\ \A d \in docs : d.id # req[r].document_id
        /\ PointsOfDoc(req[r].document_id) # {}

(* C21: a delete whose vector call succeeded removes from the owning       *)
(* tenant's collection exactly the points carrying the document id and     *)
(* then exactly the metadata record of that id; the other points of that   *)
(* collection, every other collection and every other record stay as they  *)
(* were.                                                                    *)
C21_DeleteRemovesOnlyTheDocument ==
    [][\A r \in Reqs :
          /\ (DeleteLeaves(r, "del_vectors") /\ req'[r].obs = "ok")
                => /\ \A n \in CollNames \ {CollOf(r)} : colls'[n] = colls[n]
                   /\ colls'[CollOf(r)].size = colls[CollOf(r)].size
                   /\ colls'[CollOf(r)].distance = colls[CollOf(r)].distance
                   /\ colls'[CollOf(r)].points
                         = colls[CollOf(r)].points
                              \ {p \in colls[CollOf(r)].points :
                                    p.document_id = req[r].document_id}
                   /\ docs' = docs
          /\ (DeleteLeaves(r, "del_meta") /\ req[r].obs = "ok")
                => /\ req'[r].pc = "done" /\ req'[r].status = 200
                   /\ docs' = docs \ {d \in docs : d.id = req[r].document_id}
                   /\ colls' = colls
                   /\ PointsOfDoc(req[r].document_id)' = {}]_vars

(* the document is gone, record and points, while another document of the  *)
(* same tenant and one of another tenant keep theirs                       *)
C21_Witness ==
    \E r \in Reqs :
        /\ req[r].kind = "delete" /\ req[r].pc = "done" /\ req[r].status = 200
        /\ req[r].obs = "ok"
        /\ req[r].document_id = LegacyDocId
        /\ PointsOfDoc(LegacyDocId) = {}
        /\ \E d \in docs : d.company_id = req[r].company_id /\ HasPoints(d)
        /\ \E d \in docs : d.company_id # req[r].company_id /\ HasPoints(d)

-----------------------------------------------------------------------------
(* chunk_text called directly *)

ChunkReturned == chunker.pc \in {"called", "recalled"}

PositiveStride == 0 <= chunker.overlap /\ chunker.overlap < chunker.chunk_size

ChunkWords == split(chunker.text)

(* word i of the text stands in chunk k at the place the stride gives it *)
CoveredAt(i, k) ==
    LET j  == i - (k - 1) * (chunker.chunk_size - chunker.overlap)
        cw == split(chunker.out.chunks[k])
    IN  j \in 1..Len(cw) /\ cw[j] = ChunkWords[i]

C23_NonPositiveStrideRejected ==
    (ChunkReturned /\ chunker.text # <<>> /\ chunker.overlap >= chunker.chunk_size)
        => chunker.out.raised

-----------------------------------------------------------------------------
(* Tenant isolation of the vector index *)

Stepped(r) == req'[r] # req[r]

CollectionNamesDistinct ==
    \A a, b \in CompanyIds : a # b => get_collection_name(a) # get_collection_name(b)

(* C24: distinct tenant ids have distinct collection names; a step of an   *)
(* upload, delete or chat request made for one tenant leaves every other   *)
(* tenant's collection as it was, and the points a chat's search returns   *)
(* are points of the caller's own collection carrying the caller's id.     *)
C24_TenantIsolation ==
    [][ /\ CollectionNamesDistinct
        /\ \A r \in Reqs : Stepped(r) =>
              /\ \A t \in Tenants : t # req'[r].company_id =>
                    colls'[get_collection_name(t)] = colls[get_collection_name(t)]
              /\ Leaves(r, "search") =>
                    \A k \in DOMAIN req'[r].results :
                        \E p \in colls[get_collection_name(req[r].company_id)].points :
                            /\ p.id = req'[r].results[k].id
                            /\ p.company_id = req[r].company_id
      ]_vars

(* an upload has written one tenant's collection and a chat of the other   *)
(* tenant has searched its own, both collections holding points            *)
C24_Witness ==
    \E r, q \in Reqs :
        /\ req[r].kind = "upload" /\ req[r].company_id = T1 /\ req[r].upserted
        /\ req[q].kind = "chat" /\ req[q].company_id = T2 /\ req[q].results # <<>>
        /\ \A t \in Tenants : colls[get_collection_name(t)].points # {}

-----------------------------------------------------------------------------
(* Re-upload after a dimension-mismatch migration *)

(* C25: once ensure_collection has destroyed and recreated a tenant's      *)
(* collection, an upload of the bytes of a document whose record remains   *)
(* that is answered with success leaves that document's vectors in the     *)
(* collection.                                                              *)
C25_ReuploadRepopulates ==
    [][ \A r \in Reqs : \A d \in docs :
           ( /\ Arrives(r)
             /\ recreated[get_collection_name(req'[r].company_id)]
             /\ d.company_id = req'[r].company_id
             /\ d.content_hash = md5(req'[r].file.content)
             /\ req'[r].pc = "done" /\ req'[r].status = 200 )
           => HasPoints(d)'
      ]_vars

-----------------------------------------------------------------------------
(* What a chat request writes *)

ChatSteps(r) == Stepped(r) /\ req'[r].kind = "chat"

(* C26 as stated: a chat request only reads the vector index; the points   *)
(* of every collection and the KnowledgeDocument records are the same      *)
(* after each of its steps as before.                                      *)
C26_ChatOnlyReadsIndex ==
    [][ \A r \in Reqs : ChatSteps(r) =>
           /\ docs' = docs
           /\ \A n \in CollNames : colls'[n].points = colls[n].points
      ]_vars

(* C26: a chat request changes no KnowledgeDocument record, and it changes *)
(* the points of a collection only when its ensure_collection call found   *)
(* the caller's collection with a vector size other than EMBEDDING_DIM:    *)
(* then it deletes that collection with all its points.                    *)
C26_ChatWritesOnlyByMigration ==
    [][ \A r \in Reqs : ChatSteps(r) =>
           /\ docs' = docs
           /\ (req[r].pc = "get_collection" /\ req'[r].pc = "delete_collection") =>
                 /\ colls[CollOf(r)] # NoColl
                 /\ colls[CollOf(r)].size # EMBEDDING_DIM
           /\ \A n \in CollNames : colls'[n].points # colls[n].points =>
                 /\ n = CollOf(r)
                 /\ req[r].pc = "delete_collection"
                 /\ colls'[n] = NoColl
      ]_vars

(* a chat has been answered after its ensure_collection destroyed the      *)
(* caller's legacy collection and recreated it empty                       *)
C26_Witness ==
    \E r \in Chats :
        /\ req[r].pc = "done" /\ req[r].status = 200
        /\ req[r].obs = "deleted"
        /\ recreated[CollOf(r)]
        /\ colls[CollOf(r)] = Collection(EMBEDDING_DIM, {})

-----------------------------------------------------------------------------
(* Orphan points *)

NoIndexFailure(r) ==
    /\ req[r].obs \notin {"fault", "delete_failed"}
    /\ req[r].fail \notin {"create", "upsert"}

(* C27: once all requests have completed, none of them a chat and none     *)
(* with a failed vector-index call, every point stored in a tenant's       *)
(* collection carries the id of a KnowledgeDocument record of that tenant. *)
C27_NoOrphanPoints ==
    (Quiescent /\ \A r \in Reqs : req[r].kind # "chat" /\ NoIndexFailure(r))
        => \A t \in Tenants : \A p \in colls[get_collection_name(t)].points :
              \E d \in docs : d.id = p.document_id /\ d.company_id = t

-----------------------------------------------------------------------------
(* Chunk counts and chunk ordinals of an upload *)

Written(r) ==
    {p \in colls'[CollOf(r)].points : p \notin colls[CollOf(r)].points}

(* C28: the points an upload writes carry the chunk ordinals 0..n-1 each   *)
(* exactly once, n being their number, a non-empty text, the upload's      *)
(* document id and the uploading tenant's id; and the record the upload    *)
(* then stores has that n as its chunk_count, as has the chunks_created    *)
(* of the response.                                                         *)
C28_ChunkCountMatchesPoints ==
    [][ \A r \in Reqs :
          /\ (req[r].kind = "upload" /\ req[r].pc = "upsert" /\ req'[r].upserted) =>
                /\ req'[r].len_points = Cardinality(Written(r))
                /\ req'[r].len_points >= 1
                /\ \A i \in 0..(req'[r].len_points - 1) :
                      Cardinality({p \in Written(r) : p.chunk_index = i}) = 1
                /\ \A p \in Written(r) :
                      /\ p.text # <<>>
                      /\ p.document_id = req[r].document_id
                      /\ p.company_id = req[r].company_id
          /\ (req[r].kind = "upload" /\ req[r].pc = "insert" /\ req'[r].status = 200) =>
                /\ req'[r].chunks_created = req[r].len_points
                /\ \E d \in docs' \ docs :
                      /\ d.id = req[r].document_id
                      /\ d.id = req'[r].resp_doc
                      /\ d.company_id = req[r].company_id
                      /\ d.chunk_count = req[r].len_points
      ]_vars

(* a document of three chunks and one of two have been uploaded; their     *)
(* points are in the collections                                            *)
C28_Witness ==
    \E r, q \in Reqs :
        /\ req[r].pc = "done" /\ req[r].status = 200 /\ req[r].chunks_created = 3
        /\ req[q].pc = "done" /\ req[q].status = 200 /\ req[q].chunks_created = 2
        /\ Cardinality(PointsOfDoc(DocId(r))) = 3
        /\ Cardinality(PointsOfDoc(DocId(q))) = 2

-----------------------------------------------------------------------------
(* Deletes that are refused *)

DeleteArrives(r) == req[r].pc = "idle" /\ req'[r].kind = "delete"

(* C29: a delete request for a document id whose record belongs to another *)
(* tenant than the caller's ends with 403, and one for an id without a     *)
(* record ends with 404; in both cases the request is over at once and no  *)
(* record and no point of any tenant has been removed.                     *)
C29_ForeignOrUnknownDeleteRefused ==
    [][ \A r \in Reqs : DeleteArrives(r) =>
          LET id    == req'[r].document_id
              found == {d \in docs : d.id = id}
          IN  /\ found = {} =>
                    /\ req'[r].pc = "done" /\ req'[r].status = 404
                    /\ docs' = docs /\ colls' = colls
              /\ (\E d \in found : d.company_id # req'[r].company_id) =>
                    /\ req'[r].pc = "done" /\ req'[r].status = 403
                    /\ docs' = docs /\ colls' = colls
      ]_vars

(* one tenant's delete of the other tenant's document has been refused and *)
(* a delete of an unknown id too; the other tenant's record and points are *)
(* still there                                                              *)
C29_Witness ==
    \E r, q \in Reqs :
        /\ req[r].kind = "delete" /\ req[r].status = 403
        /\ req[r].company_id = T1 /\ req[r].document_id = OtherDocId
        /\ req[q].kind = "delete" /\ req[q].status = 404
        /\ \E d \in docs : d.id = OtherDocId /\ HasPoints(d)

-----------------------------------------------------------------------------
(* The transcript of one session under concurrent chats *)

SessionIds == {req[r].session_id : r \in Chats}

(* the stored turns of a tenant's session, in insertion order *)
Transcript(t, s) ==
    LET Mine(m) == m.company_id = t /\ m.session_id = s
    IN  SelectSeq(chat_messages, Mine)

RoleCount(turns, role) == Cardinality({i \in DOMAIN turns : turns[i].role = role})

(* C30 as stated: in insertion order the transcript of a session is user   *)
(* turn, assistant turn, user turn, assistant turn, ...: every request's   *)
(* user turn is immediately followed by its assistant turn, and once all   *)
(* requests have completed every user turn has its assistant turn.         *)
C30_TurnsNeverInterleave ==
    \A t \in Tenants : \A s \in SessionIds :
        LET turns == Transcript(t, s)
        IN  /\ \A i \in DOMAIN turns :
                  turns[i].role = IF i % 2 = 1 THEN "user" ELSE "assistant"
            /\ Quiescent => Len(turns) % 2 = 0

(* C30: in a session's transcript every assistant turn has its request's   *)
(* user turn before it: the user turns outnumber the assistant turns by    *)
(* exactly the requests of the session that have stored their user turn    *)
(* and not yet their assistant turn, so once all requests have completed   *)
(* every user turn has its assistant turn.  Turns of different requests    *)
(* may interleave.                                                          *)
C30_EveryUserTurnGetsItsAssistantTurn ==
    \A t \in Tenants : \A s \in SessionIds :
        LET turns   == Transcript(t, s)
            pending == {r \in Chats : /\ req[r].company_id = t
                                      /\ req[r].session_id = s
                                      /\ req[r].pc = "insert_assistant"}
        IN  /\ RoleCount(turns, "user")
                  = RoleCount(turns, "assistant") + Cardinality(pending)
            /\ \A i \in DOMAIN turns : turns[i].role = "assistant" =>
                  RoleCount(SubSeq(turns, 1, i), "user")
                      >= RoleCount(SubSeq(turns, 1, i), "assistant")

(* two chats of one session have both been answered and their turns are    *)
(* stored interleaved: user, user, assistant, assistant                     *)
C30_Witness ==
    \E r, q \in Chats :
        /\ r # q
        /\ req[r].pc = "done" /\ req[r].status = 200
        /\ req[q].pc = "done" /\ req[q].status = 200
        /\ req[r].company_id = req[q].company_id
        /\ req[r].session_id = req[q].session_id
        /\ LET turns == Transcript(req[r].company_id, req[r].session_id)
           IN  /\ Len(turns) = 4
               /\ turns[1].role = "user" /\ turns[2].role = "user"
               /\ turns[3].role = "assistant" /\ turns[4].role = "assistant"

====
